---- MODULE Spec2Model ----
(***************************************************************************)
(* Model of cmd/gost/route.go of echo-tproxy (a gost v2 fork): the builder *)
(* that turns chain-node specs into a Chain of NodeGroups (parseChain,     *)
(* parseChainNode) and serve-node specs into Routers (GenRouters), and the *)
(* Router lifecycle (Close).                                               *)
(*                                                                         *)
(* Text is modelled as sequences of byte values; a node spec is modelled   *)
(* as the record gost.ParseNode yields from it (keys and option bag).      *)
(***************************************************************************)
EXTENDS Integers, Sequences, FiniteSets, TLC

(***************************************************************************)
(* Bounds of the model.                                                    *)
(***************************************************************************)
MaxChain == 2
MaxServe == 2
MaxClose == 2
MaxReloads == 1
MaxPeers == 1
MaxHandshakes == 2

(***************************************************************************)
(* Text helpers.                                                           *)
(***************************************************************************)
\* byte values of the letters used in credentials
Letter == [u |-> 117, p |-> 112, q |-> 113]

\* ':', which separates user and password; '=', the base64 padding; CR and
\* LF, which the base64 decoder skips
ChColon == 58
ChPad == 61
ChCR == 13
ChLF == 10

\* url.Userinfo: nil, url.User(name) or url.UserPassword(name, pass)
NilUser == [isNil |-> TRUE, name |-> <<>>, pass |-> <<>>, passSet |-> FALSE]

User(name) == [isNil |-> FALSE, name |-> name, pass |-> <<>>, passSet |-> FALSE]

UserPassword(name, pass) ==
    [isNil |-> FALSE, name |-> name, pass |-> pass, passSet |-> TRUE]

\* strings.IndexByte: 1-based index of the first b in s, 0 when absent
\* (Go's -1)
IndexByte(s, b) ==
    IF \E i \in 1..Len(s) : s[i] = b
    THEN CHOOSE i \in 1..Len(s) : s[i] = b /\ \A j \in 1..(i-1) : s[j] # b
    ELSE 0

\* the value of a base64 (standard alphabet) character, -1 when it has none
B64Val(c) ==
    IF c >= 65 /\ c <= 90 THEN c - 65
    ELSE IF c >= 97 /\ c <= 122 THEN c - 97 + 26
    ELSE IF c >= 48 /\ c <= 57 THEN c - 48 + 52
    ELSE IF c = 43 THEN 62
    ELSE IF c = 47 THEN 63
    ELSE -1

\* one 4-character quantum: the bytes it encodes; last tells whether it is the
\* final quantum, the only one where padding is legal
B64Quantum(q, last) ==
    LET v(i) == B64Val(q[i])
        n == v(1) * 262144 + v(2) * 4096
             + (IF q[3] = ChPad THEN 0 ELSE v(3) * 64)
             + (IF q[4] = ChPad THEN 0 ELSE v(4))
        b1 == n \div 65536
        b2 == (n \div 256) % 256
        b3 == n % 256
    IN  IF v(1) < 0 \/ v(2) < 0 THEN [err |-> TRUE, bytes |-> <<>>]
        ELSE IF q[3] = ChPad
        THEN IF last /\ q[4] = ChPad THEN [err |-> FALSE, bytes |-> <<b1>>]
             ELSE [err |-> TRUE, bytes |-> <<>>]
        ELSE IF v(3) < 0 THEN [err |-> TRUE, bytes |-> <<>>]
        ELSE IF q[4] = ChPad
        THEN IF last THEN [err |-> FALSE, bytes |-> <<b1, b2>>]
             ELSE [err |-> TRUE, bytes |-> <<>>]
        ELSE IF v(4) < 0 THEN [err |-> TRUE, bytes |-> <<>>]
        ELSE [err |-> FALSE, bytes |-> <<b1, b2, b3>>]

RECURSIVE B64Quanta(_)
B64Quanta(s) ==
    IF Len(s) = 0 THEN [err |-> FALSE, bytes |-> <<>>]
    ELSE IF Len(s) < 4 THEN [err |-> TRUE, bytes |-> <<>>]
    ELSE LET h == B64Quantum(SubSeq(s, 1, 4), Len(s) = 4)
             t == B64Quanta(SubSeq(s, 5, Len(s)))
         IN  IF h.err \/ t.err THEN [err |-> TRUE, bytes |-> <<>>]
             ELSE [err |-> FALSE, bytes |-> h.bytes \o t.bytes]

\* base64.StdEncoding.DecodeString: padded standard alphabet; CR and LF are
\* skipped
Base64Decode(s) ==
    B64Quanta(SelectSeq(s, LAMBDA c : c # ChCR /\ c # ChLF))

(***************************************************************************)
(* The environment: files and network interfaces the builder reads.        *)
(***************************************************************************)
\* the credentials used by the specs: "u:p" and "q:p"
CredUP == UserPassword(<<Letter.u>>, <<Letter.p>>)
CredQP == UserPassword(<<Letter.q>>, <<Letter.p>>)

\* parseUsers: the credentials of a secrets file; no file named gives none,
\* an unreadable file is an error
parseUsers(path) ==
    IF path = "" THEN [err |-> FALSE, users |-> <<>>]
    ELSE IF path = "secrets.txt" THEN [err |-> FALSE, users |-> <<CredQP, CredUP>>]
    ELSE IF path = "empty.txt" THEN [err |-> FALSE, users |-> <<>>]
    ELSE [err |-> TRUE, users |-> <<>>]

\* loadCA: the certificate pool of a CA bundle ("" is Go's nil pool)
loadCA(path) ==
    IF path = "" THEN [err |-> FALSE, pool |-> ""]
    ELSE IF path = "ca.pem" THEN [err |-> FALSE, pool |-> "ca.pem"]
    ELSE [err |-> TRUE, pool |-> ""]

\* parseKCPConfig: "" is no config (nil, nil)
parseKCPConfig(path) ==
    IF path = "" THEN [err |-> FALSE, config |-> ""]
    ELSE IF path = "kcp.json" THEN [err |-> FALSE, config |-> "kcp.json"]
    ELSE [err |-> TRUE, config |-> ""]

\* gost.ParseSSHKeyFile
ParseSSHKeyFile(path) ==
    IF path = "id_rsa" THEN [err |-> FALSE, key |-> "id_rsa"]
    ELSE [err |-> TRUE, key |-> ""]

\* gost.Obfs4Init: the out-of-band negotiation of the obfs4 transport, which
\* fails on a node whose cert option does not parse (the nodes expanded from
\* one spec carry the same options)
Obfs4InitErr(node) == node.Values["cert"] # "obfs4-cert"

\* net.SplitHostPort of a node address <<host, port>>; an address without a
\* port is an error and yields two empty strings
SplitHostPort(addr) ==
    IF addr[2] = "" THEN <<"", "">> ELSE addr

\* parseIP: one address per listed IP, each with the given port
parseIP(ips, port) ==
    [i \in 1..Len(ips) |-> <<ips[i], port>>]

(***************************************************************************)
(* Node specs.  gost.ParseNode yields the keys and the option bag of a     *)
(* spec string "protocol+transport://[user[:pass]@]host[:port][?k=v...]"   *)
(* or an error for a malformed one.                                        *)
(***************************************************************************)
NoValues ==
    [auth |-> <<>>, secrets |-> "", ca |-> "", secure |-> FALSE, c |-> "",
     tcp |-> FALSE, ssh_key |-> "", host |-> "", ip |-> <<>>, peer |-> "",
     strategy |-> "", max_fails |-> 0, cert |-> "", key |-> "",
     ssh_authorized_keys |-> "", sourceInterface |-> "", whitelist |-> "",
     blacklist |-> "", dns |-> "", preserveSrc |-> FALSE, proxyNetns |-> ""]

ParseNode(ns) ==
    [err |-> ns.malformed,
     node |-> [ID |-> 0, Addr |-> <<ns.Host, ns.Port>>, Host |-> ns.Host,
               Protocol |-> ns.Protocol, Transport |-> ns.Transport,
               User |-> ns.User, Values |-> ns.Values, Client |-> 0,
               Remote |-> ns.Remote,
               HandshakeOptions |-> <<>>, DialHost |-> "",
               TLSConfig |-> [ServerName |-> "", InsecureSkipVerify |-> FALSE,
                              RootCAs |-> "", VerifyConnection |-> FALSE]]]

(***************************************************************************)
(* parseChainNode (route.go:95-326).                                       *)
(***************************************************************************)
\* route.go:106-112: the credential of a decoded auth option
SplitUser(cs) ==
    IF IndexByte(cs, ChColon) = 0 THEN User(cs)
    ELSE UserPassword(SubSeq(cs, 1, IndexByte(cs, ChColon) - 1),
                      SubSeq(cs, IndexByte(cs, ChColon) + 1, Len(cs)))

\* route.go:102-112, c being the decoded option
DecodedUser(c) ==
    IF c.err THEN [err |-> TRUE, user |-> NilUser]
    ELSE [err |-> FALSE, user |-> SplitUser(c.bytes)]

\* the alternative of AuthUser that lets the auth option override an embedded
\* credential
AuthUserOverrides(node) ==
    IF node.Values["auth"] # <<>>
    THEN DecodedUser(Base64Decode(node.Values["auth"]))
    ELSE [err |-> FALSE, user |-> node.User]

\* route.go:101-113: the auth option, consulted only without an embedded
\* credential
AuthUser(node) ==
    IF node.Values["auth"] # <<>> /\ node.User.isNil
    THEN DecodedUser(Base64Decode(node.Values["auth"]))
    ELSE [err |-> FALSE, user |-> node.User]

\* route.go:114-122: the secrets file, consulted only when the node still has
\* no credential; a is what the auth option gave
SecretsUser(node, a) ==
    IF a.err THEN a
    ELSE IF ~a.user.isNil THEN a
    ELSE IF parseUsers(node.Values["secrets"]).err
    THEN [err |-> TRUE, user |-> a.user]
    ELSE IF Len(parseUsers(node.Values["secrets"]).users) > 0
    THEN [err |-> FALSE, user |-> parseUsers(node.Values["secrets"]).users[1]]
    ELSE a

\* route.go:101-122
ResolveUser(node) == SecretsUser(node, AuthUser(node))

\* route.go:124-161: the TLS configuration
ChainTLSConfig(node) ==
    LET serverName == SplitHostPort(node.Addr)[1]
        rootCAs == loadCA(node.Values["ca"]).pool
    IN  [ServerName |-> IF serverName = "" THEN "localhost" ELSE serverName,
         InsecureSkipVerify |-> ~node.Values["secure"],
         RootCAs |-> rootCAs,
         VerifyConnection |-> rootCAs # "" /\ ~node.Values["secure"]]

\* route.go:176-229: the transporter of a transport key
ChainTransporter(node) ==
    LET t == node.Transport
    IN  IF t \in {"tls", "mtls", "ws", "mws", "wss", "mwss", "kcp", "http2",
                  "h2", "h2c", "obfs4", "ohttp", "otls", "ftcp", "udp", "vsock"}
        THEN t
        ELSE IF t = "ssh"
        THEN IF node.Protocol \in {"direct", "remote"} THEN "sshforward"
             ELSE "sshtunnel"
        ELSE "tcp"

\* route.go:231-259: the connector of a protocol key
ChainConnector(node, user) ==
    LET p == node.Protocol
    IN  IF p = "http2" THEN [kind |-> "http2", User |-> user]
        ELSE IF p \in {"socks", "socks5"} THEN [kind |-> "socks5", User |-> user]
        ELSE IF p = "socks4" THEN [kind |-> "socks4", User |-> NilUser]
        ELSE IF p = "socks4a" THEN [kind |-> "socks4a", User |-> NilUser]
        ELSE IF p = "ss" THEN [kind |-> "ss", User |-> user]
        ELSE IF p = "ssu" THEN [kind |-> "ssu", User |-> user]
        ELSE IF p = "direct" THEN [kind |-> "sshdirect", User |-> NilUser]
        ELSE IF p = "remote" THEN [kind |-> "sshremote", User |-> NilUser]
        ELSE IF p = "forward" THEN [kind |-> "forward", User |-> NilUser]
        ELSE IF p = "sni" THEN [kind |-> "sni", User |-> NilUser]
        ELSE IF p = "http" THEN [kind |-> "http", User |-> user]
        ELSE IF p = "relay" THEN [kind |-> "relay", User |-> user]
        ELSE [kind |-> "auto", User |-> user]

\* route.go:190-201 and 277-284: the files read on the way, an error of which
\* aborts
ChainFilesErr(node) ==
    \/ loadCA(node.Values["ca"]).err
    \/ node.Transport = "kcp" /\ parseKCPConfig(node.Values["c"]).err
    \/ node.Values["ssh_key"] # "" /\ ParseSSHKeyFile(node.Values["ssh_key"]).err

\* a handshake option
HSOpt(k, v) == [k |-> k, v |-> v]

\* route.go:285-294 (the options whose values the model draws)
ChainHandshakeOptions(node, user, host, tlsCfg) ==
    << HSOpt("Addr", node.Addr), HSOpt("Host", <<host, "">>),
       HSOpt("User", <<user>>), HSOpt("TLSConfig", <<tlsCfg>>) >>

\* the alternative of ExpandIPs that also keeps the base node
ExpandIPsKeepBase(node, handshakeOptions, ips) ==
    <<[node EXCEPT !.HandshakeOptions = handshakeOptions]>> \o
    [i \in 1..Len(ips) |->
        [node EXCEPT !.Addr = ips[i],
                     !.HandshakeOptions =
                         Append(handshakeOptions, HSOpt("Addr", ips[i]))]]

\* route.go:303-315: one clone per IP, or the base node alone
ExpandIPs(node, handshakeOptions, ips) ==
    IF Len(ips) = 0
    THEN <<[node EXCEPT !.HandshakeOptions = handshakeOptions]>>
    ELSE [i \in 1..Len(ips) |->
            [node EXCEPT !.Addr = ips[i],
                         !.HandshakeOptions =
                             Append(handshakeOptions, HSOpt("Addr", ips[i]))]]

NoClient == [Connector |-> [kind |-> "", User |-> NilUser], Transporter |-> ""]

ParseFailed == [err |-> TRUE, nodes |-> <<>>, client |-> NoClient]

\* route.go:124-326, node being the base node with its credential resolved
ExpandChainNode(node) ==
    IF ChainFilesErr(node) THEN ParseFailed
    ELSE IF node.Transport = "obfs4" /\ Obfs4InitErr(node)
    THEN ParseFailed
    ELSE [err |-> FALSE,
          nodes |-> ExpandIPs(node,
                              ChainHandshakeOptions(node, node.User,
                                                    node.DialHost, node.TLSConfig),
                              parseIP(node.Values["ip"],
                                      SplitHostPort(node.Addr)[2])),
          client |-> [Connector |-> ChainConnector(node, node.User),
                      Transporter |-> ChainTransporter(node)]]

\* route.go:261-264
DialHost(node) ==
    IF node.Values["host"] = "" THEN node.Host ELSE node.Values["host"]

\* route.go:96-326, p being what gost.ParseNode gave and u the credential
\* resolved from it
BuildChainNode(p, u, ptr) ==
    IF p.err \/ u.err THEN ParseFailed
    ELSE ExpandChainNode([p.node EXCEPT !.User = u.user,
                                        !.DialHost = DialHost(p.node),
                                        !.TLSConfig = ChainTLSConfig(p.node),
                                        !.Client = ptr])

\* route.go:95-326; ptr is the address of the gost.Client allocated at 296,
\* which every clone of the node shares
ParseChainNode(ns, ptr) ==
    BuildChainNode(ParseNode(ns), ResolveUser(ParseNode(ns).node), ptr)

\* the handshake address in force: that of the last Addr option
HandshakeAddr(node) ==
    LET opts == node.HandshakeOptions
        last == CHOOSE i \in 1..Len(opts) :
                    /\ opts[i].k = "Addr"
                    /\ \A j \in (i+1)..Len(opts) : opts[j].k # "Addr"
    IN  opts[last].v

(***************************************************************************)
(* State.                                                                  *)
(***************************************************************************)
VARIABLES
    ChainNodes,   \* route.ChainNodes: the chain-node specs
    ServeNodes,   \* route.ServeNodes: the serve-node specs
    pc,           \* where GenRouters is: "parseChain", "serve", "returned"
    cstep,        \* where the body of parseChain's loop is
    ci,           \* index of the chain-node spec parseChain is at
    gid,          \* parseChain's next group ID
    ngroup,       \* parseChain's group under construction (0: none)
    groups,       \* the NodeGroup objects, by address
    chain,        \* the Chain: the addresses of its groups, in hop order
    clients,      \* the gost.Client objects, by address
    tasks,        \* the groups a PeriodReload goroutine runs for
    peerLoads,    \* per group, the synchronous peer loads done by parseChain
    reloads,      \* per group, the reloads done by its PeriodReload goroutine
    si,           \* index of the serve-node spec GenRouters is at
    rts,          \* GenRouters' local router list
    listeners,    \* the Listener objects, by address
    handlers,     \* the Handler objects, by address
    ret,          \* what GenRouters returned
    closeCalls,   \* the calls of router.Close made so far, per receiver
    lastClose,    \* the last call of router.Close and what it returned
    nsIn,         \* parseChainNode called alone: its argument
    nsOut,        \* parseChainNode called alone: its result
    capturedErr,  \* parseChainNode's named result err, which the
                  \* VerifyConnection closure of route.go:141 captures
    hs            \* the TLS handshakes made with the nodes of nsOut

vars == <<ChainNodes, ServeNodes, pc, cstep, ci, gid, ngroup, groups, chain,
          clients, tasks, peerLoads, reloads, si, rts, listeners, handlers,
          ret, closeCalls, lastClose, nsIn, nsOut, capturedErr, hs>>

routeVars == <<ChainNodes, ServeNodes>>
chainVars == <<cstep, ci, gid, ngroup, groups, chain, tasks, peerLoads>>
serveVars == <<si, rts, listeners, handlers>>
aloneVars == <<nsIn, nsOut>>
closeVars == <<closeCalls, lastClose>>
verifyVars == <<capturedErr, hs>>

\* every sequence over S of length at most n
SeqsUpTo(S, n) == UNION {[1..k -> S] : k \in 0..n}

(***************************************************************************)
(* parseChain (route.go:38-93), one action per stretch of the loop body    *)
(* between the points where the PeriodReload goroutines can run.           *)
(***************************************************************************)
\* os.Open of a peer file
PeerFileOpens(path) == path = "peers.txt"

\* a node of a peer file: peer.go numbers them after the base nodes
PeerNode(id) ==
    [ParseNode([malformed |-> FALSE, Protocol |-> "socks5", Transport |-> "tcp",
                Host |-> "peer", Port |-> "1080", User |-> NilUser,
                Remote |-> "",
                Values |-> NoValues]).node EXCEPT !.ID = id]

\* peerConfig.Reload: the group's node set replaced as a whole by the base
\* nodes followed by the k nodes the peer file lists
PeerReload(group, k) ==
    [group EXCEPT !.nodes = SubSeq(group.nodes, 1, group.base) \o
                            [i \in 1..k |-> PeerNode(group.base + i)]]

\* the alternative of AssignIDs that numbers the nodes from 0
AssignIDsFromZero(nodes) ==
    [i \in 1..Len(nodes) |-> [nodes[i] EXCEPT !.ID = i - 1]]

\* route.go:56-60
AssignIDs(nodes) ==
    [i \in 1..Len(nodes) |-> [nodes[i] EXCEPT !.ID = i]]

\* route.go:46-47 and 61-72: the group of one spec, its nodes and selector
NewGroup(id, nodes) ==
    [ID |-> id, nodes |-> nodes, base |-> Len(nodes),
     MaxFails |-> nodes[1].Values["max_fails"],
     Strategy |-> nodes[1].Values["strategy"]]

\* route.go:52-54, 76-78: parseChain returns nil and the error
\* (GenRouters, 329-332, returns nil and the error in turn)
Failed == [done |-> TRUE, err |-> TRUE, rts |-> <<>>]

NotReturned == [done |-> FALSE, err |-> FALSE, rts |-> <<>>]

\* the alternative of CStepAfter that starts the reload goroutine before the
\* first load
CStepAfterGoFirst(step, peer) ==
    IF step = "parse" THEN (IF peer # "" THEN "go" ELSE "add")
    ELSE IF step = "go" THEN "peer"
    ELSE "add"

\* route.go:74-89: the order of the loop body after the group is set up:
\* with a peer option the load, then the go statement, then AddNodeGroup
CStepAfter(step, peer) ==
    IF step = "parse" THEN (IF peer # "" THEN "peer" ELSE "add")
    ELSE IF step = "peer" THEN "go"
    ELSE "add"

\* route.go:45-72
ChainParse ==
    /\ pc = "parseChain" /\ cstep = "parse" /\ ci <= Len(ChainNodes)
    /\ LET ptr == Len(clients) + 1
           r == ParseChainNode(ChainNodes[ci], ptr)
           g == Len(groups) + 1
       IN  /\ gid' = gid + 1
           /\ IF r.err
              THEN /\ pc' = "returned" /\ ret' = Failed
                   /\ UNCHANGED <<cstep, ngroup, groups, clients, peerLoads,
                                  reloads>>
              ELSE /\ groups' = Append(groups, NewGroup(gid, AssignIDs(r.nodes)))
                   /\ clients' = Append(clients, r.client)
                   /\ ngroup' = g
                   /\ peerLoads' = Append(peerLoads, 0)
                   /\ reloads' = Append(reloads, 0)
                   /\ cstep' = CStepAfter("parse", r.nodes[1].Values["peer"])
                   /\ UNCHANGED <<pc, ret>>
    /\ UNCHANGED <<routeVars, ci, chain, tasks, serveVars, closeVars, aloneVars,
                   verifyVars>>

\* route.go:74-84: the peer file opened and loaded once
ChainPeerLoad ==
    /\ pc = "parseChain" /\ cstep = "peer"
    /\ IF PeerFileOpens(groups[ngroup].nodes[1].Values["peer"])
       THEN \E k \in 0..MaxPeers :
              /\ groups' = [groups EXCEPT ![ngroup] = PeerReload(@, k)]
              /\ peerLoads' = [peerLoads EXCEPT ![ngroup] = @ + 1]
              /\ cstep' = CStepAfter("peer", "peers.txt")
              /\ UNCHANGED <<pc, ret>>
       ELSE /\ pc' = "returned" /\ ret' = Failed
            /\ UNCHANGED <<groups, peerLoads, cstep>>
    /\ UNCHANGED <<routeVars, ci, gid, ngroup, chain, clients, tasks, reloads,
                   serveVars, closeVars, aloneVars,
                   verifyVars>>

\* route.go:86: go gost.PeriodReload(peerCfg, cfg)
ChainPeerGo ==
    /\ pc = "parseChain" /\ cstep = "go"
    /\ tasks' = tasks \cup {ngroup}
    /\ cstep' = CStepAfter("go", "peers.txt")
    /\ UNCHANGED <<routeVars, pc, ci, gid, ngroup, groups, chain, clients,
                   peerLoads, reloads, serveVars, ret, closeVars, aloneVars,
                   verifyVars>>

\* route.go:89
ChainAddGroup ==
    /\ pc = "parseChain" /\ cstep = "add"
    /\ chain' = Append(chain, ngroup)
    /\ ngroup' = 0
    /\ ci' = ci + 1
    /\ cstep' = "parse"
    /\ UNCHANGED <<routeVars, pc, gid, groups, clients, tasks, peerLoads,
                   reloads, serveVars, ret, closeVars, aloneVars,
                   verifyVars>>

\* route.go:92 and 329-334
ParseChainReturn ==
    /\ pc = "parseChain" /\ cstep = "parse" /\ ci > Len(ChainNodes)
    /\ pc' = "serve"
    /\ UNCHANGED <<routeVars, chainVars, clients, reloads, serveVars, ret,
                   closeVars, aloneVars,
                   verifyVars>>

\* gost.PeriodReload, one round of the goroutine of group g: the peer file
\* read again and the node set replaced, or, the reload failing, kept
ReloadTick(g) ==
    /\ g \in tasks /\ reloads[g] < MaxReloads
    /\ reloads' = [reloads EXCEPT ![g] = @ + 1]
    /\ \E k \in 0..MaxPeers, failed \in BOOLEAN :
          groups' = IF failed THEN groups
                    ELSE [groups EXCEPT ![g] = PeerReload(@, k)]
    /\ UNCHANGED <<routeVars, pc, cstep, ci, gid, ngroup, chain, clients,
                   tasks, peerLoads, serveVars, ret, closeVars, aloneVars,
                   verifyVars>>

(***************************************************************************)
(* GenRouters (route.go:328-697): the serve-node loop.                     *)
(***************************************************************************)
\* net.InterfaceByName and Interface.Addrs on this host
Interface(name) ==
    IF name = "tailscale0"
    THEN [err |-> FALSE, addrsErr |-> FALSE,
          addrs |-> << [ip |-> "fe80::1", v4 |-> FALSE],
                       [ip |-> "100.64.0.1", v4 |-> TRUE],
                       [ip |-> "100.64.0.9", v4 |-> TRUE] >>]
    ELSE IF name = "v6only"
    THEN [err |-> FALSE, addrsErr |-> FALSE,
          addrs |-> << [ip |-> "fe80::2", v4 |-> FALSE] >>]
    ELSE IF name = "noaddr"
    THEN [err |-> FALSE, addrsErr |-> FALSE, addrs |-> <<>>]
    ELSE IF name = "gone0"
    THEN [err |-> FALSE, addrsErr |-> TRUE, addrs |-> <<>>]
    ELSE [err |-> TRUE, addrsErr |-> FALSE, addrs |-> <<>>]

\* route.go:471-475: ipv4Addr after the loop over the addresses ("" is nil)
RECURSIVE FirstIPv4(_)
FirstIPv4(addrs) ==
    IF Len(addrs) = 0 THEN ""
    ELSE IF addrs[1].v4 THEN addrs[1].ip
    ELSE FirstIPv4(Tail(addrs))

\* net.ResolveTCPAddr fails on an address without a port
ResolveTCPAddrErr(addr) == addr[2] = ""

\* the alternative of SourceAddr that falls back to the configured address
SourceAddrFallback(node) ==
    LET ifName == node.Values["sourceInterface"]
        ief == Interface(ifName)
        ipv4Addr == FirstIPv4(ief.addrs)
    IN  IF ifName = "" \/ ief.err \/ ief.addrsErr \/ ipv4Addr = ""
        THEN [err |-> FALSE, addr |-> node.Addr]
        ELSE [err |-> FALSE, addr |-> <<ipv4Addr, node.Addr[2]>>]

\* route.go:457-492: the listen address of a tcp serve node
SourceAddr(node) ==
    LET ifName == node.Values["sourceInterface"]
        ief == Interface(ifName)
        ipv4Addr == FirstIPv4(ief.addrs)
    IN  IF ifName = "" THEN [err |-> FALSE, addr |-> node.Addr]
        ELSE IF ief.err THEN [err |-> TRUE, addr |-> node.Addr]
        ELSE IF ief.addrsErr THEN [err |-> TRUE, addr |-> node.Addr]
        ELSE IF ipv4Addr = "" THEN [err |-> TRUE, addr |-> node.Addr]
        ELSE IF ResolveTCPAddrErr(node.Addr) THEN [err |-> TRUE, addr |-> node.Addr]
        ELSE [err |-> FALSE, addr |-> <<ipv4Addr, node.Addr[2]>>]

\* route.go:393-570: the kind of listener of a transport key
ListenerKind(node) ==
    LET t == node.Transport
    IN  IF t \in {"tls", "mtls", "ws", "mws", "wss", "mwss", "kcp", "http2",
                  "h2", "h2c", "vsock", "udp", "rtcp", "rudp", "obfs4",
                  "ohttp", "otls", "tun", "tap", "ftcp", "dns"}
        THEN t
        ELSE IF t = "ssh"
        THEN IF node.Protocol = "forward" THEN "tcp" ELSE "sshtunnel"
        ELSE IF t \in {"redu", "redirectu"} THEN "udpredirect"
        ELSE "tcp"

\* route.go:393-570: what keeps the switch from reaching its listener
\* constructor
ListenerSetupErr(node) ==
    LET t == node.Transport
    IN  \/ t = "kcp" /\ parseKCPConfig(node.Values["c"]).err
        \/ t = "ssh" /\ node.Values["ssh_key"] # ""
                     /\ ParseSSHKeyFile(node.Values["ssh_key"]).err
        \/ t = "ssh" /\ node.Values["ssh_authorized_keys"] # ""
                     /\ node.Values["ssh_authorized_keys"] # "authorized_keys"
        \/ t = "tcp" /\ SourceAddr(node).err
        \/ t = "obfs4" /\ Obfs4InitErr(node)

\* route.go:393-570: the address the listener is constructed on
ListenAddr(node) ==
    IF node.Transport = "tcp" THEN SourceAddr(node).addr ELSE node.Addr

\* the alternative of LastNodeClient that leaves the chain's clients alone
LastNodeClientKept(chn, grps, cls, node) == cls

\* route.go:450-454 and 503-507: a tcp or rtcp serve node makes the client of
\* the chain's last node an SSH port forwarder when that node is forward+ssh
LastNodeClient(chn, grps, cls, node) ==
    LET last == grps[chn[Len(chn)]].nodes[1]
    IN  IF /\ node.Transport \in {"tcp", "rtcp"}
           /\ Len(chn) > 0
           /\ last.Protocol = "forward" /\ last.Transport = "ssh"
        THEN [cls EXCEPT ![last.Client] =
                [Connector |-> [kind |-> IF node.Transport = "tcp"
                                         THEN "sshdirect" ELSE "sshremote",
                                User |-> NilUser],
                 Transporter |-> "sshforward"]]
        ELSE cls

\* route.go:575-620: the handler of a protocol key
HandlerKind(node) ==
    LET p == node.Protocol
    IN  IF p \in {"http2", "ss", "http", "tcp", "rtcp", "udp", "rudp", "ssu",
                  "sni", "tun", "tap", "dns", "relay"}
        THEN p
        ELSE IF p \in {"socks", "socks5"} THEN "socks5"
        ELSE IF p \in {"socks4", "socks4a"} THEN "socks4"
        ELSE IF p = "forward" THEN "sshforward"
        ELSE IF p \in {"red", "redirect"} THEN "tcpredirect"
        ELSE IF p \in {"redu", "redirectu"} THEN "udpredirect"
        ELSE IF node.Remote # "" THEN "tcp"
        ELSE "auto"

\* gost.ParsePermissions
ParsePermissionsErr(s) == s = "bad"

\* route.go:649-673: the options of the first Init
InitOptions ==
    {"Addr", "Chain", "Users", "Authenticator", "TLSConfig", "Whitelist",
     "Blacklist", "Strategy", "MaxFails", "FailTimeout", "Bypass", "Resolver",
     "Hosts", "Retry", "Timeout", "ProbeResist", "Knocking", "Node", "IPs",
     "TCPMode", "IPRoutes", "ProxyAgent", "HTTPTunnel"}

\* route.go:679-682: the options of the second Init
RedirectOptions == {"PreserveSrc", "ProxyNetns"}

\* the alternative of SecondInit that also covers the UDP redirect protocols
SecondInitAnyRedirect(node) ==
    node.Protocol \in {"red", "redirect", "redu", "redirectu"}

\* route.go:676: whether the handler is initialized a second time
SecondInit(node) == node.Protocol \in {"red", "redirect"}

\* route.go:649-683: the Init calls made on the handler, in order
HandlerInits(node) ==
    IF SecondInit(node) THEN <<InitOptions, RedirectOptions>>
    ELSE <<InitOptions>>

\* tlsConfig: the server certificate pair or the CA bundle does not load
tlsConfigErr(node) ==
    \/ node.Values["cert"] # "cert.pem" \/ node.Values["key"] # "key.pem"
    \/ loadCA(node.Values["ca"]).err

\* route.go:337-373: what fails before the listener switch (parseAuthenticator
\* reads the secrets file as parseUsers does)
ServeEarlyErr(ns) ==
    LET p == ParseNode(ns)
    IN  \/ p.err
        \/ AuthUser(p.node).err
        \/ parseUsers(p.node.Values["secrets"]).err
        \/ /\ tlsConfigErr(p.node)
           /\ p.node.Values["cert"] # "" /\ p.node.Values["key"] # ""

\* route.go:342-368: the credential of a serve node, a being what the auth
\* option gave (an error of the second parseUsers is dropped)
ServeUserOf(node, a) ==
    IF a.isNil /\ Len(parseUsers(node.Values["secrets"]).users) > 0
    THEN parseUsers(node.Values["secrets"]).users[1]
    ELSE a

ServeUser(node) == ServeUserOf(node, AuthUser(node).user)

\* the chain object GenRouters builds
ChainPtr == 1

\* the alternative of Router that gives every Router the first listener
RouterSharedServer(node, ln, h) ==
    [node |-> node, server |-> 1, handler |-> h, chain |-> ChainPtr]

\* route.go:685-692
Router(node, ln, h) ==
    [node |-> node, server |-> ln, handler |-> h, chain |-> ChainPtr]

\* the alternative of Returned that hands back the routers built so far
ReturnedPartial(err, routers) == [done |-> TRUE, err |-> err, rts |-> routers]

\* route.go:339, 345, ..., 573, 696: GenRouters' results
Returned(err, routers) ==
    [done |-> TRUE, err |-> err, rts |-> IF err THEN <<>> ELSE routers]

\* route.go:622-694 for the serve node of listener ln
ServeHandler(node, ln) ==
    IF \/ ParsePermissionsErr(node.Values["whitelist"])
       \/ ParsePermissionsErr(node.Values["blacklist"])
    THEN /\ pc' = "returned" /\ ret' = Returned(TRUE, rts)
         /\ UNCHANGED <<si, rts, handlers>>
    ELSE /\ handlers' = Append(handlers,
                               [kind |-> HandlerKind(node), serve |-> si,
                                chain |-> ChainPtr,
                                inits |-> HandlerInits(node)])
         /\ rts' = Append(rts, Router(node, ln, Len(handlers) + 1))
         /\ si' = si + 1
         /\ UNCHANGED <<pc, ret>>

\* route.go:392-694 for a serve node parsed and given its credential;
\* bindErr is whether the listener constructor fails
ServeListener(node) ==
    /\ clients' = LastNodeClient(chain, groups, clients, node)
    /\ IF ListenerSetupErr(node)
       THEN /\ pc' = "returned" /\ ret' = Returned(TRUE, rts)
            /\ UNCHANGED serveVars
       ELSE \E bindErr \in BOOLEAN :
            IF bindErr
            THEN /\ pc' = "returned" /\ ret' = Returned(TRUE, rts)
                 /\ UNCHANGED serveVars
            ELSE /\ listeners' = Append(listeners,
                                        [kind |-> ListenerKind(node),
                                         addr |-> ListenAddr(node),
                                         serve |-> si, open |-> TRUE,
                                         closes |-> 0])
                 /\ ServeHandler(node, Len(listeners) + 1)

\* the serve node of a spec: what gost.ParseNode gave, with the credential of
\* route.go:342-368
ServeNodeOf(ns) == [ParseNode(ns).node EXCEPT !.User = ServeUser(ParseNode(ns).node)]

\* route.go:336-694: the loop body for one serve-node spec
ServeNode ==
    /\ pc = "serve" /\ si <= Len(ServeNodes)
    /\ IF ServeEarlyErr(ServeNodes[si])
       THEN /\ pc' = "returned" /\ ret' = Returned(TRUE, rts)
            /\ UNCHANGED <<clients, serveVars>>
       ELSE ServeListener(ServeNodeOf(ServeNodes[si]))
    /\ UNCHANGED <<routeVars, chainVars, reloads, closeVars, aloneVars,
                   verifyVars>>

\* route.go:696
GenRoutersReturn ==
    /\ pc = "serve" /\ si > Len(ServeNodes)
    /\ pc' = "returned"
    /\ ret' = Returned(FALSE, rts)
    /\ UNCHANGED <<routeVars, chainVars, clients, reloads, serveVars,
                   closeVars, aloneVars,
                   verifyVars>>

(***************************************************************************)
(* router.Close (route.go:713-718).  The receivers are the routers         *)
(* GenRouters returned, a nil *router and a router without a server.       *)
(***************************************************************************)
NilRouter == [isNil |-> TRUE, server |-> 0]

NoServerRouter == [isNil |-> FALSE, server |-> 0]

\* gost.Server.Close: Close of the listener, which reports an error on a
\* listener closed before
ServerClose(ls, l) ==
    [ls EXCEPT ![l] = [@ EXCEPT !.open = FALSE, !.closes = @ + 1]]

\* the alternative of CloseReaches that closes a listener once only
CloseReachesOnce(r, ls) ==
    ~(r.isNil \/ r.server = 0) /\ ls[r.server].open

\* route.go:714-717: whether Close reaches r.server.Close()
CloseReaches(r, ls) == ~(r.isNil \/ r.server = 0)

\* route.go:713-718 on receiver r, named who
RouterClose(who, r) ==
    /\ IF CloseReaches(r, listeners)
       THEN /\ listeners' = ServerClose(listeners, r.server)
            /\ lastClose' = [who |-> who, reached |-> TRUE,
                             err |-> ~listeners[r.server].open]
       ELSE /\ listeners' = listeners
            /\ lastClose' = [who |-> who, reached |-> FALSE, err |-> FALSE]
    /\ UNCHANGED <<routeVars, pc, chainVars, clients, reloads, si, rts,
                   handlers, ret, aloneVars,
                   verifyVars>>

RECURSIVE SumTo(_, _)
SumTo(f, n) == IF n = 0 THEN 0 ELSE f[n] + SumTo(f, n - 1)

\* the number of Close calls made so far
TotalCloses == closeCalls.nil + closeCalls.noServer + SumTo(closeCalls.rt, MaxServe)

\* Close on the i-th router GenRouters returned
Close(i) ==
    /\ pc = "returned" /\ i \in 1..Len(ret.rts)
    /\ TotalCloses < MaxClose
    /\ closeCalls' = [closeCalls EXCEPT !.rt[i] = @ + 1]
    /\ RouterClose(i, [isNil |-> FALSE, server |-> ret.rts[i].server])

\* Close on a nil *router
CloseNil ==
    /\ pc = "returned"
    /\ TotalCloses < MaxClose
    /\ closeCalls' = [closeCalls EXCEPT !.nil = @ + 1]
    /\ RouterClose(0, NilRouter)

\* Close on a router whose server is nil
CloseNoServer ==
    /\ pc = "returned"
    /\ TotalCloses < MaxClose
    /\ closeCalls' = [closeCalls EXCEPT !.noServer = @ + 1]
    /\ RouterClose(-1, NoServerRouter)

(***************************************************************************)
(* The configurations checked.                                             *)
(***************************************************************************)
\* "dTpw", "dQ==", "dTo=", "OnA=", "dTpwOnE=": base64 of "u:p", "u", "u:",
\* ":p", "u:p:q"; "dQ" lacks its padding, "d=pw" pads in the middle, "dT!w"
\* holds a character outside the alphabet, "dT\npw" holds a line feed
TokUP == <<100, 84, 112, 119>>
TokU == <<100, 81, 61, 61>>
TokUColon == <<100, 84, 111, 61>>
TokColonP == <<79, 110, 65, 61>>
TokUPQ == <<100, 84, 112, 119, 79, 110, 69, 61>>
TokNoPad == <<100, 81>>
TokMidPad == <<100, 61, 112, 119>>
TokBadChar == <<100, 84, 33, 119>>
TokUPLF == <<100, 84, 10, 112, 119>>

AuthTokens ==
    {<<>>, TokUP, TokU, TokUColon, TokColonP, TokUPQ, TokNoPad, TokMidPad,
     TokBadChar, TokUPLF}

\* a chain-node or serve-node spec
NodeSpec(protocol, transport, host, port, user, values) ==
    [malformed |-> FALSE, Protocol |-> protocol, Transport |-> transport,
     Host |-> host, Port |-> port, User |-> user, Remote |-> "",
     Values |-> values]

\* a spec gost.ParseNode rejects
MalformedSpec == [NodeSpec("", "", "", "", NilUser, NoValues) EXCEPT !.malformed = TRUE]

\* socks5+tls://u:p@10.0.0.1:1080
ChainSocks == NodeSpec("socks5", "tls", "10.0.0.1", "1080", CredUP, NoValues)

\* forward+ssh://10.0.0.2:22?ip=1.2.3.4,1.2.3.5
ChainForwardSSH ==
    NodeSpec("forward", "ssh", "10.0.0.2", "22", NilUser,
             [NoValues EXCEPT !.ip = <<"1.2.3.4", "1.2.3.5">>])

\* http://10.0.0.3:8080?peer=peers.txt&auth=dTpw
ChainPeer ==
    NodeSpec("http", "tcp", "10.0.0.3", "8080", NilUser,
             [NoValues EXCEPT !.peer = "peers.txt", !.auth = TokUP])

\* socks5://10.0.0.4:1080?peer=nopeers.txt, a peer file that does not open
ChainNoPeerFile ==
    NodeSpec("socks5", "tcp", "10.0.0.4", "1080", NilUser,
             [NoValues EXCEPT !.peer = "nopeers.txt"])


\* redirect://:12345?preserveSrc=true&proxyNetns=ns1
ServeRedirect ==
    NodeSpec("redirect", "tcp", "", "12345", NilUser,
             [NoValues EXCEPT !.preserveSrc = TRUE, !.proxyNetns = "ns1"])

\* red://:12345?sourceInterface=<ifName>&preserveSrc=true&proxyNetns=ns1
ServeRed(ifName) ==
    NodeSpec("red", "tcp", "", "12345", NilUser,
             [NoValues EXCEPT !.sourceInterface = ifName, !.preserveSrc = TRUE,
                              !.proxyNetns = "ns1"])

\* redu://:12345?preserveSrc=true&proxyNetns=ns1
ServeRedU ==
    NodeSpec("redu", "redu", "", "12345", NilUser,
             [NoValues EXCEPT !.preserveSrc = TRUE, !.proxyNetns = "ns1"])

\* socks5+tls://:1080?sourceInterface=eth7
ServeSocksTLS ==
    NodeSpec("socks5", "tls", "", "1080", NilUser,
             [NoValues EXCEPT !.sourceInterface = "eth7"])

\* rtcp://:2222/10.0.0.9:22
ServeRTCP ==
    [NodeSpec("rtcp", "rtcp", "", "2222", NilUser, NoValues)
        EXCEPT !.Remote = "10.0.0.9:22"]

\* http://:8080?whitelist=bad, permissions that do not parse
ServeBadWhitelist ==
    NodeSpec("http", "tcp", "", "8080", NilUser,
             [NoValues EXCEPT !.whitelist = "bad"])

NoCloses == [nil |-> 0, noServer |-> 0, rt |-> [i \in 1..MaxServe |-> 0]]

NotClosed == [who |-> 0, reached |-> FALSE, err |-> FALSE]

NotParsed == [done |-> FALSE, err |-> FALSE, nodes |-> <<>>, client |-> NoClient]

(***************************************************************************)
(* TLS handshakes with the nodes parseChainNode returned.  Every node of   *)
(* one call carries the same *tls.Config (node.Clone copies the pointer),  *)
(* hence the same VerifyConnection closure, and every run of the closure   *)
(* assigns and reads the one variable err the closure captured: the named  *)
(* result of that call (route.go:95, 158-159).  The handshakes run in the  *)
(* goroutines of the connections, with no synchronization between them.    *)
(***************************************************************************)
\* the server of a handshake: whether its leaf certificate chains to the CA
\* bundle of the ca option, and whether it is valid for the ServerName
Peers == [trusted : BOOLEAN, nameMatches : BOOLEAN]

NoPeer == [trusted |-> FALSE, nameMatches |-> FALSE]

\* a handshake not started
NoHandshake == [pc |-> "idle", node |-> 0, peer |-> NoPeer, accepted |-> FALSE]

\* route.go:142-158: certs[0].Verify(opts) with Roots the CA bundle, the other
\* certificates as intermediates and no DNSName: nil or an error
CertVerify(peer) == IF peer.trusted THEN "nil" ELSE "unknown authority"

\* crypto/tls with InsecureSkipVerify unset (route.go:135, secure set): the
\* chain is verified against RootCAs, the host's roots for a nil pool, and
\* the name against ServerName
StandardVerify(cfg, peer) ==
    cfg.RootCAs # "" /\ peer.trusted /\ peer.nameMatches

\* crypto/tls on the configuration of route.go:133-161: its own verification
\* unless InsecureSkipVerify, then VerifyConnection when it is set
TLSHandshake(cfg, n, peer) ==
    IF ~cfg.InsecureSkipVerify /\ ~StandardVerify(cfg, peer)
    THEN [pc |-> "done", node |-> n, peer |-> peer, accepted |-> FALSE]
    ELSE IF cfg.VerifyConnection
    THEN [pc |-> "verify", node |-> n, peer |-> peer, accepted |-> FALSE]
    ELSE [pc |-> "done", node |-> n, peer |-> peer, accepted |-> TRUE]

\* handshake h starts, with one of the nodes returned and some server
HandshakeStart(h) ==
    /\ pc = "alone" /\ nsOut.done /\ ~nsOut.err
    /\ hs[h].pc = "idle"
    /\ \E n \in 1..Len(nsOut.nodes), peer \in Peers :
          hs' = [hs EXCEPT ![h] = TLSHandshake(nsOut.nodes[n].TLSConfig, n, peer)]
    /\ UNCHANGED <<routeVars, pc, chainVars, clients, reloads, serveVars, ret,
                   closeVars, aloneVars, capturedErr>>

\* route.go:158: _, err = certs[0].Verify(opts), err being the captured
\* variable
VerifyAssign(h) ==
    /\ hs[h].pc = "verify"
    /\ capturedErr' = CertVerify(hs[h].peer)
    /\ hs' = [hs EXCEPT ![h].pc = "return"]
    /\ UNCHANGED <<routeVars, pc, chainVars, clients, reloads, serveVars, ret,
                   closeVars, aloneVars>>

\* route.go:159: return err, the captured variable read again; the handshake
\* succeeds when the value returned is nil
VerifyReturn(h) ==
    /\ hs[h].pc = "return"
    /\ hs' = [hs EXCEPT ![h].pc = "done", ![h].accepted = (capturedErr = "nil")]
    /\ UNCHANGED <<routeVars, pc, chainVars, clients, reloads, serveVars, ret,
                   closeVars, aloneVars, capturedErr>>

\* the builder's state before GenRouters, all but its configuration
InitBuilder ==
    /\ cstep = "parse" /\ ci = 1 /\ gid = 1 /\ ngroup = 0
    /\ groups = <<>> /\ chain = <<>> /\ clients = <<>>
    /\ tasks = {} /\ peerLoads = <<>> /\ reloads = <<>>
    /\ si = 1 /\ rts = <<>> /\ listeners = <<>> /\ handlers = <<>>
    /\ ret = NotReturned
    /\ closeCalls = NoCloses /\ lastClose = NotClosed
    /\ nsOut = NotParsed
    /\ capturedErr = "nil"
    /\ hs = [h \in 1..MaxHandshakes |-> NoHandshake]

(***************************************************************************)
(* Spec: GenRouters over chain-node specs without a peer option, and the   *)
(* Routers it returns, closed in any order.                                *)
(***************************************************************************)
ChainSpecs == {ChainSocks, ChainForwardSSH}

ServeSpecs == {ServeRedirect, ServeRTCP, ServeBadWhitelist}

Init ==
    /\ ChainNodes \in SeqsUpTo(ChainSpecs, MaxChain)
    /\ ServeNodes \in SeqsUpTo(ServeSpecs, MaxServe)
    /\ pc = "parseChain"
    /\ nsIn = MalformedSpec
    /\ InitBuilder

Next ==
    \/ ChainParse
    \/ ChainAddGroup
    \/ ParseChainReturn
    \/ ServeNode
    \/ GenRoutersReturn
    \/ \E i \in 1..MaxServe : Close(i)
    \/ CloseNil
    \/ CloseNoServer

Spec == Init /\ [][Next]_vars

(***************************************************************************)
(* SpecServe: GenRouters over chain-node specs without a peer option and   *)
(* the serve-node specs of every listener and handler path checked.        *)
(***************************************************************************)
ServeChainSpecs == {ChainSocks, ChainForwardSSH, MalformedSpec}

ServeSpecsWide ==
    {ServeRedirect, ServeRed("tailscale0"), ServeRed("eth7"), ServeRed("v6only"),
     ServeRed("noaddr"), ServeRedU, ServeSocksTLS, ServeRTCP, ServeBadWhitelist}

InitServe ==
    /\ ChainNodes \in SeqsUpTo(ServeChainSpecs, MaxChain)
    /\ ServeNodes \in SeqsUpTo(ServeSpecsWide, MaxServe)
    /\ pc = "parseChain"
    /\ nsIn = MalformedSpec
    /\ InitBuilder

NextServe ==
    \/ ChainParse
    \/ ChainAddGroup
    \/ ParseChainReturn
    \/ ServeNode
    \/ GenRoutersReturn

SpecServe == InitServe /\ [][NextServe]_vars

(***************************************************************************)
(* SpecChain: parseChain and the PeriodReload goroutines it starts.        *)
(***************************************************************************)
ChainSpecsWide ==
    {ChainSocks, ChainForwardSSH, ChainPeer, ChainNoPeerFile, MalformedSpec}

InitChain ==
    /\ ChainNodes \in SeqsUpTo(ChainSpecsWide, MaxChain)
    /\ ServeNodes = <<>>
    /\ pc = "parseChain"
    /\ nsIn = MalformedSpec
    /\ InitBuilder

NextChain ==
    \/ ChainParse
    \/ ChainPeerLoad
    \/ ChainPeerGo
    \/ ChainAddGroup
    \/ ParseChainReturn
    \/ \E g \in 1..MaxChain : ReloadTick(g)

SpecChain == InitChain /\ [][NextChain]_vars

(***************************************************************************)
(* SpecNode: parseChainNode alone, on one chain-node spec.                 *)
(***************************************************************************)
MaxIPs == 2

NodeInputs ==
    { [NodeSpec(pt[1], pt[2], host, "1080", user,
                [NoValues EXCEPT !.auth = auth, !.secrets = secrets,
                                 !.ip = ip, !.ca = ca])
          EXCEPT !.malformed = bad] :
        pt \in {<<"socks5", "tls">>, <<"forward", "ssh">>, <<"", "">>},
        host \in {"10.0.0.1", ""},
        user \in {NilUser, CredUP},
        auth \in AuthTokens,
        secrets \in {"", "secrets.txt", "empty.txt", "missing.txt"},
        ip \in SeqsUpTo({"1.2.3.4", "1.2.3.5"}, MaxIPs),
        ca \in {"", "ca.pem", "missing.pem"},
        bad \in {FALSE} }
    \cup {MalformedSpec}

InitNode ==
    /\ nsIn \in NodeInputs
    /\ ChainNodes = <<>> /\ ServeNodes = <<>>
    /\ pc = "alone"
    /\ InitBuilder

\* parseChainNode called on nsIn
ParseAlone ==
    /\ pc = "alone" /\ ~nsOut.done
    /\ nsOut' = [done |-> TRUE] @@ ParseChainNode(nsIn, 1)
    /\ UNCHANGED <<routeVars, pc, chainVars, clients, reloads, serveVars, ret,
                   closeVars, nsIn, verifyVars>>

NextNode == ParseAlone

SpecNode == InitNode /\ [][NextNode]_vars

(***************************************************************************)
(* SpecVerify: parseChainNode on one tls chain-node spec, then concurrent  *)
(* TLS handshakes with the nodes it returned.                              *)
(***************************************************************************)
VerifyInputs ==
    { NodeSpec("socks5", "tls", "10.0.0.1", "1080", CredUP,
               [NoValues EXCEPT !.ca = ca, !.secure = secure, !.ip = ip]) :
        ca \in {"", "ca.pem"},
        secure \in BOOLEAN,
        ip \in {<<>>, <<"1.2.3.4", "1.2.3.5">>} }

InitVerify ==
    /\ nsIn \in VerifyInputs
    /\ ChainNodes = <<>> /\ ServeNodes = <<>>
    /\ pc = "alone"
    /\ InitBuilder

NextVerify ==
    \/ ParseAlone
    \/ \E h \in 1..MaxHandshakes : HandshakeStart(h)
    \/ \E h \in 1..MaxHandshakes : VerifyAssign(h)
    \/ \E h \in 1..MaxHandshakes : VerifyReturn(h)

SpecVerify == InitVerify /\ [][NextVerify]_vars

(***************************************************************************)
(* Properties of parseChain, checked under SpecChain.                      *)
(***************************************************************************)
\* the nodes parseChainNode yields for the k-th chain-node spec
SpecNodes(k) == ParseChainNode(ChainNodes[k], k).nodes

\* C1: the k-th group of the Chain comes from the k-th spec and has ID k; the
\* n nodes of that spec are its first n nodes, in the order produced, with
\* IDs 1..n; a Chain returned has one group per spec.
C1_GroupAndNodeIDs ==
    /\ Len(chain) <= Len(ChainNodes)
    /\ pc = "serve" => Len(chain) = Len(ChainNodes)
    /\ \A k \in 1..Len(chain) :
          /\ groups[chain[k]].ID = k
          /\ Len(groups[chain[k]].nodes) >= Len(SpecNodes(k))
          /\ \A j \in 1..Len(SpecNodes(k)) :
                groups[chain[k]].nodes[j] = [SpecNodes(k)[j] EXCEPT !.ID = j]

\* C1, its case: a Chain of two groups returned, the second of two nodes
C1_Witness ==
    /\ pc = "serve" /\ Len(chain) = 2
    /\ groups[chain[1]].ID = 1 /\ groups[chain[2]].ID = 2
    /\ ChainNodes[2] = ChainForwardSSH
    /\ groups[chain[2]].nodes[1].ID = 1
    /\ groups[chain[2]].nodes[2].ID = 2
    /\ groups[chain[1]].nodes[1].ID = 1

\* whether the spec of group g carries a peer option, and whether its file
\* opens
HasPeer(g) == ChainNodes[g].Values["peer"] # ""

PeerOpens(g) == PeerFileOpens(ChainNodes[g].Values["peer"])

\* the groups appended to the Chain
InChain == {chain[k] : k \in 1..Len(chain)}

\* C10: a group with a peer option is loaded from its peer file once by
\* parseChain, on the group already holding its base nodes and selector, before
\* its reload goroutine is started and before it is appended to the Chain;
\* parseChain then goes on whatever the goroutine does; a peer file that does
\* not open fails parseChain with no goroutine started.
C10_PeerLoadOrder ==
    /\ \A g \in 1..Len(groups) :
          /\ peerLoads[g] <= 1
          /\ peerLoads[g] = 1 =>
                /\ HasPeer(g) /\ PeerOpens(g)
                /\ groups[g].base = Len(SpecNodes(g))
                /\ groups[g].Strategy = ChainNodes[g].Values["strategy"]
          /\ g \in tasks => peerLoads[g] = 1
          /\ (g \in InChain /\ HasPeer(g)) => (peerLoads[g] = 1 /\ g \in tasks)
          /\ (g \in InChain /\ ~HasPeer(g)) => (peerLoads[g] = 0 /\ g \notin tasks)
          /\ (HasPeer(g) /\ ~PeerOpens(g)) =>
                /\ g \notin tasks /\ g \notin InChain /\ peerLoads[g] = 0
                /\ \/ pc = "parseChain" /\ cstep = "peer" /\ ngroup = g
                   \/ pc = "returned" /\ ret.err /\ ret.rts = <<>>
    /\ (pc = "parseChain" /\ cstep = "add") => ENABLED ChainAddGroup

\* C10, its case: parseChain returned a Chain holding a peer-seeded group while
\* the group's reload goroutine has not run a round yet, after the goroutine of
\* an earlier group has
C10_Witness ==
    /\ pc = "serve" /\ Len(chain) = 2
    /\ HasPeer(1) /\ HasPeer(2)
    /\ tasks = {1, 2}
    /\ peerLoads[2] = 1 /\ reloads[2] = 0 /\ reloads[1] = 1

(***************************************************************************)
(* Properties of parseChainNode, checked under SpecNode.                   *)
(***************************************************************************)
\* the address of the spec parseChainNode was called on
BaseAddr == <<nsIn.Host, nsIn.Port>>

\* a node with its address and handshake address taken out
SharedConfig(node) ==
    [node EXCEPT !.Addr = <<"", "">>,
                 !.HandshakeOptions =
                     SelectSeq(node.HandshakeOptions, LAMBDA o : o.k # "Addr")]

\* C5: with k >= 1 addresses in the ip option parseChainNode returns k nodes,
\* the i-th dialing and handshaking with the i-th IP and the spec's port, all
\* of one configuration, which is the spec's, and none at the spec's own
\* address; without addresses it returns the base node alone.
C5_OneNodePerIP ==
    (nsOut.done /\ ~nsOut.err) =>
        LET ips == nsIn.Values["ip"]
            nodes == nsOut.nodes
        IN  IF Len(ips) >= 1
            THEN /\ Len(nodes) = Len(ips)
                 /\ \A i \in 1..Len(nodes) :
                       /\ nodes[i].Addr = <<ips[i], nsIn.Port>>
                       /\ HandshakeAddr(nodes[i]) = <<ips[i], nsIn.Port>>
                       /\ nodes[i].Addr # BaseAddr
                       /\ SharedConfig(nodes[i]) = SharedConfig(nodes[1])
                       /\ nodes[i].Protocol = nsIn.Protocol
                       /\ nodes[i].Transport = nsIn.Transport
                       /\ nodes[i].Host = nsIn.Host
                       /\ nodes[i].Values = nsIn.Values
                       /\ nodes[i].Client = 1
            ELSE /\ Len(nodes) = 1
                 /\ nodes[1].Addr = BaseAddr
                 /\ HandshakeAddr(nodes[1]) = BaseAddr
                 /\ nodes[1].Protocol = nsIn.Protocol
                 /\ nodes[1].Transport = nsIn.Transport

\* C5, its case: ip=1.2.3.5,1.2.3.4 expanded into two nodes in that order
C5_Witness ==
    /\ nsOut.done /\ ~nsOut.err
    /\ nsIn.Values["ip"] = <<"1.2.3.5", "1.2.3.4">>
    /\ Len(nsOut.nodes) = 2
    /\ nsOut.nodes[1].Addr = <<"1.2.3.5", "1080">>
    /\ HandshakeAddr(nsOut.nodes[2]) = <<"1.2.3.4", "1080">>

\* what the well-formed auth tokens stand for
AuthMeaning(tok) ==
    IF tok = TokUP \/ tok = TokUPLF THEN CredUP
    ELSE IF tok = TokU THEN User(<<Letter.u>>)
    ELSE IF tok = TokUColon THEN UserPassword(<<Letter.u>>, <<>>)
    ELSE IF tok = TokColonP THEN UserPassword(<<>>, <<Letter.p>>)
    ELSE UserPassword(<<Letter.u>>, <<Letter.p, ChColon, Letter.q>>)

MalformedTokens == {TokNoPad, TokMidPad, TokBadChar}

\* the failures of parseChainNode that have nothing to do with credentials
OtherFailure == nsIn.malformed \/ nsIn.Values["ca"] = "missing.pem"

\* the credential every node returned carries
AllUsers(u) == \A i \in 1..Len(nsOut.nodes) : nsOut.nodes[i].User = u

\* C6: an embedded credential is final whatever auth and secrets say; without
\* one a present auth option decides (decoded, split at the first colon, and
\* fatal when malformed); without either the first entry of the secrets file
\* is taken, an unreadable file being fatal.
C6_CredentialPrecedence ==
    (nsOut.done /\ ~OtherFailure) =>
        IF ~nsIn.User.isNil
        THEN ~nsOut.err /\ AllUsers(nsIn.User)
        ELSE IF nsIn.Values["auth"] # <<>>
        THEN IF nsIn.Values["auth"] \in MalformedTokens THEN nsOut.err
             ELSE ~nsOut.err /\ AllUsers(AuthMeaning(nsIn.Values["auth"]))
        ELSE IF nsIn.Values["secrets"] = "missing.txt" THEN nsOut.err
        ELSE IF nsIn.Values["secrets"] = "secrets.txt"
        THEN ~nsOut.err /\ AllUsers(CredQP)
        ELSE ~nsOut.err /\ AllUsers(NilUser)

\* C6, its case: an embedded credential kept although the auth option is
\* malformed and the secrets file unreadable
C6_Witness ==
    /\ nsOut.done /\ ~nsOut.err
    /\ nsIn.User = CredUP
    /\ nsIn.Values["auth"] = TokBadChar
    /\ nsIn.Values["secrets"] = "missing.txt"
    /\ nsOut.nodes[1].User = CredUP
    /\ nsOut.client.Connector.User = CredUP

(***************************************************************************)
(* Properties of GenRouters, checked under SpecServe.                      *)
(***************************************************************************)
\* a chain-node spec parseChain fails on, a serve-node spec GenRouters fails
\* on whatever the listener constructor does
ChainSpecFails(ns) ==
    \/ ParseChainNode(ns, 1).err
    \/ ns.Values["peer"] # "" /\ ~PeerFileOpens(ns.Values["peer"])

ServeSpecFails(ns) ==
    \/ ServeEarlyErr(ns)
    \/ ListenerSetupErr(ServeNodeOf(ns))
    \/ ParsePermissionsErr(ns.Values["whitelist"])
    \/ ParsePermissionsErr(ns.Values["blacklist"])

SomeSpecFails ==
    \/ \E k \in 1..Len(ChainNodes) : ChainSpecFails(ChainNodes[k])
    \/ \E i \in 1..Len(ServeNodes) : ServeSpecFails(ServeNodes[i])

\* C2: GenRouters returns an error whenever a chain-node or serve-node spec
\* fails, and with an error it returns no router; without one it returns a
\* router for every serve-node spec.
C2_AtomicStartup ==
    ret.done =>
        /\ SomeSpecFails => ret.err
        /\ ret.err => ret.rts = <<>>
        /\ ~ret.err => (Len(ret.rts) = Len(ServeNodes) /\ Len(chain) = Len(ChainNodes))

\* C2, its case: the second serve-node spec failed after a router was built
\* for the first
C2_Witness ==
    /\ ret.done /\ ret.err /\ ret.rts = <<>>
    /\ Len(rts) = 1 /\ si = 2
    /\ Len(listeners) >= 1
    /\ ServeSpecFails(ServeNodes[2])

\* a sourceInterface option naming an interface that does not exist, has no
\* addresses or has no IPv4 address
BadInterface(ns) ==
    /\ ~ns.malformed
    /\ ns.Values["sourceInterface"] # ""
    /\ \/ Interface(ns.Values["sourceInterface"]).err
       \/ ~\E j \in 1..Len(Interface(ns.Values["sourceInterface"]).addrs) :
             Interface(ns.Values["sourceInterface"]).addrs[j].v4

\* no listener was constructed for the i-th serve-node spec and GenRouters did
\* not get past it
NoListenerFor(i) ==
    /\ \A l \in 1..Len(listeners) : listeners[l].serve # i
    /\ si <= i
    /\ (ret.done /\ si = i /\ Len(chain) = Len(ChainNodes)) => ret.err

\* C3 as the specification words it: whatever the transport, a serve-node spec with an unusable
\* sourceInterface gets no listener.
C3_AnyTransport ==
    \A i \in 1..Len(ServeNodes) :
        BadInterface(ServeNodes[i]) => NoListenerFor(i)

\* C3 amended: a serve-node spec of transport tcp with an unusable
\* sourceInterface fails GenRouters and gets no listener; one with a usable
\* sourceInterface listens on the interface's first IPv4 address and the
\* spec's port.
C3_TCPSourceInterface ==
    \A i \in 1..Len(ServeNodes) :
        /\ (BadInterface(ServeNodes[i]) /\ ServeNodes[i].Transport = "tcp")
              => NoListenerFor(i)
        /\ \A l \in 1..Len(listeners) :
              (/\ listeners[l].serve = i
               /\ ServeNodes[i].Transport = "tcp"
               /\ ServeNodes[i].Values["sourceInterface"] = "tailscale0")
              => listeners[l].addr = <<"100.64.0.1", ServeNodes[i].Port>>

\* C3, its case: GenRouters failed on red://:12345?sourceInterface=eth7, its
\* second serve-node spec, with the listener of the first one only
C3_Witness ==
    /\ ret.done /\ ret.err
    /\ si = 2 /\ ServeNodes[2] = ServeRed("eth7")
    /\ Len(listeners) = 1 /\ listeners[1].serve = 1

\* the protocol of the serve node handler h was built for
HandlerProtocol(h) == ServeNodes[handlers[h].serve].Protocol

\* C7 as the specification words it: the handler of every transparent-redirect protocol, TCP or
\* UDP, is initialized a second time.
C7_EveryRedirect ==
    \A h \in 1..Len(handlers) :
        HandlerProtocol(h) \in {"red", "redirect", "redu", "redirectu"}
            => Len(handlers[h].inits) = 2

\* C7 amended: a handler is initialized once with the common options, and a
\* second time, with preserveSrc and proxyNetns, exactly when its protocol
\* is red or redirect; the UDP redirect handlers are initialized once.
C7_SecondInitTCPRedirect ==
    /\ \A h \in 1..Len(handlers) :
          /\ handlers[h].inits[1] = InitOptions
          /\ HandlerProtocol(h) \in {"red", "redirect"}
                => handlers[h].inits = <<InitOptions, RedirectOptions>>
          /\ HandlerProtocol(h) \notin {"red", "redirect"}
                => handlers[h].inits = <<InitOptions>>
    /\ \A i \in 1..(si - 1) : \E h \in 1..Len(handlers) : handlers[h].serve = i

\* C7, its case: a redirect handler initialized twice beside a redu handler
\* initialized once
C7_Witness ==
    /\ Len(handlers) = 2
    /\ HandlerProtocol(1) = "redirect" /\ Len(handlers[1].inits) = 2
    /\ HandlerProtocol(2) = "redu" /\ Len(handlers[2].inits) = 1
    /\ handlers[2].kind = "udpredirect"

\* the client of the nodes of the k-th chain group
GroupClient(k) == clients[groups[chain[k]].nodes[1].Client]

\* the client parseChainNode derives from the k-th chain-node spec
DerivedClient(k) == ParseChainNode(ChainNodes[k], k).client

SSHForwardClient(kind) ==
    [Connector |-> [kind |-> kind, User |-> NilUser], Transporter |-> "sshforward"]

\* the client of a forward+ssh last node after the first n serve-node specs:
\* that of the last tcp or rtcp one among them
RECURSIVE ClientAfter(_, _)
ClientAfter(derived, n) ==
    IF n = 0 THEN derived
    ELSE IF ServeNodes[n].malformed THEN ClientAfter(derived, n - 1)
    ELSE IF ServeNodes[n].Transport = "tcp" THEN SSHForwardClient("sshdirect")
    ELSE IF ServeNodes[n].Transport = "rtcp" THEN SSHForwardClient("sshremote")
    ELSE ClientAfter(derived, n - 1)

\* C8 as the specification words it: the connector and transporter of every chain node stay those
\* derived from its spec.
C8_ClientsUntouched ==
    \A k \in 1..Len(chain) :
        \A j \in 1..groups[chain[k]].base :
            clients[groups[chain[k]].nodes[j].Client] = DerivedClient(k)

\* C8 amended: the connector and transporter of a chain node stay those derived
\* from its spec unless it is in the last group and that group's node is
\* forward+ssh; then every serve node of transport tcp (rtcp) makes them the
\* SSH direct (remote) forward connector and the SSH forward transporter, for
\* all nodes of the group at once.
C8_OnlyLastForwardSSH ==
    \A k \in 1..Len(chain) :
        /\ \A j \in 1..groups[chain[k]].base :
              groups[chain[k]].nodes[j].Client = groups[chain[k]].nodes[1].Client
        /\ IF /\ k = Len(ChainNodes)
              /\ ChainNodes[k].Protocol = "forward" /\ ChainNodes[k].Transport = "ssh"
           THEN /\ pc = "parseChain" => GroupClient(k) = DerivedClient(k)
                /\ pc = "serve" => GroupClient(k) = ClientAfter(DerivedClient(k), si - 1)
                /\ (ret.done /\ ~ret.err)
                      => GroupClient(k) = ClientAfter(DerivedClient(k), Len(ServeNodes))
                /\ (ret.done /\ ret.err)
                      => GroupClient(k) \in {ClientAfter(DerivedClient(k), si - 1),
                                             ClientAfter(DerivedClient(k), si)}
           ELSE GroupClient(k) = DerivedClient(k)

\* C8, its case: GenRouters returned after a tcp serve node on a chain ending
\* in forward+ssh behind another group
C8_Witness ==
    /\ ret.done /\ ~ret.err
    /\ Len(chain) = 2 /\ ChainNodes[2] = ChainForwardSSH
    /\ ChainNodes[1] = ChainForwardSSH
    /\ GroupClient(2) = SSHForwardClient("sshdirect")
    /\ GroupClient(1) = DerivedClient(1)
    /\ DerivedClient(2).Connector.kind = "forward"

(***************************************************************************)
(* Properties of the Routers, checked under Spec.                          *)
(***************************************************************************)
\* C4 as the specification words it: whatever Close calls are made, a listener is closed once at
\* most.
C4_ClosedOnce ==
    \A l \in 1..Len(listeners) : listeners[l].closes <= 1

\* C4 amended: Close on a nil Router or one without a server returns no error
\* and reaches no listener; every Close on another Router calls Close on its
\* listener, once per call.
C4_CloseReachesListenerPerCall ==
    /\ lastClose.who \in {0, -1} => (~lastClose.reached /\ ~lastClose.err)
    /\ lastClose.who \in 1..MaxServe => lastClose.reached
    /\ \A i \in 1..Len(ret.rts) :
          listeners[ret.rts[i].server].closes = closeCalls.rt[i]
    /\ \A l \in 1..Len(listeners) :
          (\A i \in 1..Len(ret.rts) : ret.rts[i].server # l)
              => (listeners[l].closes = 0 /\ listeners[l].open)

\* C4, its case: Close called on a nil Router after one call on a Router
\* with a server
C4_Witness ==
    /\ Len(ret.rts) >= 1
    /\ closeCalls.rt[1] = 1 /\ closeCalls.nil = 1
    /\ lastClose.who = 0
    /\ listeners[ret.rts[1].server].closes = 1

\* C9: GenRouters returns one Router per serve-node spec, the i-th built from
\* the i-th spec, each with a listener of its own and all with the one Chain;
\* a Router's listener is closed exactly when Close was called on that Router.
C9_OneRouterPerSpec ==
    (ret.done /\ ~ret.err) =>
        /\ Len(ret.rts) = Len(ServeNodes)
        /\ \A i \in 1..Len(ret.rts) :
              /\ ret.rts[i].node = ServeNodeOf(ServeNodes[i])
              /\ ret.rts[i].server \in 1..Len(listeners)
              /\ listeners[ret.rts[i].server].serve = i
              /\ handlers[ret.rts[i].handler].serve = i
              /\ ret.rts[i].chain = ChainPtr
              /\ handlers[ret.rts[i].handler].chain = ChainPtr
              /\ listeners[ret.rts[i].server].open <=> closeCalls.rt[i] = 0
              /\ \A j \in 1..Len(ret.rts) :
                    i # j => ret.rts[i].server # ret.rts[j].server

\* C9, its case: of two Routers the second closed and the first still open
C9_Witness ==
    /\ ret.done /\ ~ret.err /\ Len(ret.rts) = 2
    /\ closeCalls.rt[2] = 1 /\ closeCalls.rt[1] = 0
    /\ ~listeners[ret.rts[2].server].open
    /\ listeners[ret.rts[1].server].open

(***************************************************************************)
(* Properties of the certificate verification, checked under SpecVerify.   *)
(***************************************************************************)
\* the spec sets ca and leaves secure unset: verification is the closure's
ManualVerification == nsIn.Values["ca"] = "ca.pem" /\ ~nsIn.Values["secure"]

\* C11: with ca set and secure unset every handshake is decided by its own
\* peer certificates, whatever other handshakes run at the same time: a peer
\* whose leaf chains to the CA is accepted, any other rejected.
C11_VerdictByOwnCertificates ==
    ManualVerification =>
        \A h \in 1..MaxHandshakes :
            hs[h].pc = "done" => (hs[h].accepted <=> hs[h].peer.trusted)

====
